---- MODULE Spec2Model ----
(***************************************************************************)
(* A model of do_scan.py, the fleet scan of obs-service-cargo_audit: the   *)
(* main script resolves the devel project of every package, checks each    *)
(* package out and inspects (and rewrites) its _service descriptor, runs   *)
(* the services of the packages, scans every package and partitions the    *)
(* packages into the remediation sets it prints.                           *)
(***************************************************************************)
EXTENDS Integers, Sequences, FiniteSets, TLC

(***************************************************************************)
(* Bounds of the model.                                                    *)
(***************************************************************************)
\* longest list of package names given to one run
MaxDepends == 2
\* most <service> elements of one _service descriptor
MaxSteps == 2
\* most entries of one scan report
MaxEntries == 2
\* most advisories of one entry of a scan report
MaxAdvisories == 1

None == "None"

\* package names (duplicates in the list are possible: --package foo foo)
Packages == {"foo", "bar"}

\* what `osc dp` answers: the devel project of each package
DevelProject == [p \in Packages |-> IF p = "foo" THEN "devel:languages:rust"
                                   ELSE "network"]

\* advisory ids: the ones a report may hold and the one --rustsec-id may name
AdvisoryIds == {"RUSTSEC-2023-0001", "RUSTSEC-2023-0002"}

\* the values of --rustsec-id the runs are started with
RunIds == {None, "RUSTSEC-2023-0001"}

RECURSIVE SeqsUpTo(_, _)
SeqsUpTo(S, n) ==
    IF n = 0 THEN {<<>>}
    ELSE LET shorter == SeqsUpTo(S, n - 1)
         IN  shorter \cup {Append(s, x) : s \in {t \in shorter : Len(t) = n - 1}, x \in S}

(***************************************************************************)
(* The _service descriptor: the sequence of the <service name=...>         *)
(* children of the root, each with its <param name=...>text</param>        *)
(* children.  NoFile: there is no _service file.  Malformed: the file is   *)
(* no well-formed XML.                                                     *)
(***************************************************************************)
File(tags) == [exists |-> TRUE, wellformed |-> TRUE, tags |-> tags]
NoFile == [exists |-> FALSE, wellformed |-> TRUE, tags |-> <<>>]
Malformed == [exists |-> TRUE, wellformed |-> FALSE, tags |-> <<>>]

Param(n, t) == [name |-> n, text |-> t]
Service(n, ps) == [name |-> n, params |-> ps]

Steps ==
    { Service("cargo_audit", <<Param("lockfile", "Cargo.lock")>>),
      Service("cargo_vendor", <<Param("update", "true")>>),
      Service("cargo_vendor", <<Param("update", "false")>>),
      Service("download_files", <<>>) }

Descriptors == {NoFile, Malformed} \cup {File(tags) : tags \in SeqsUpTo(Steps, MaxSteps)}

(***************************************************************************)
(* does_have_cargo_audit on a parsed descriptor: the loop over             *)
(* root_node.findall('service'), which sets the flags and removes the      *)
(* cargo_audit and cargo_vendor elements from the tree that is written     *)
(* back.  acc holds the flags so far and the elements kept so far.         *)
(***************************************************************************)
RECURSIVE attr_lockfile(_, _, _)
attr_lockfile(params, k, lockfile) ==
    IF k > Len(params) THEN lockfile
    ELSE attr_lockfile(params, k + 1,
            IF params[k].name = "lockfile" THEN params[k].text ELSE lockfile)

RECURSIVE attr_update(_, _, _)
attr_update(params, k, has_vendor_update) ==
    IF k > Len(params) THEN has_vendor_update
    ELSE attr_update(params, k + 1,
            IF params[k].name = "update" /\ params[k].text = "true"
            THEN TRUE ELSE has_vendor_update)

\* a slip: the loop runs over the live children of the root, so the element
\* after a removed one is passed over and stays
RECURSIVE scan_tags_live(_, _, _)
scan_tags_live(tags, k, acc) ==
    IF k > Len(tags) THEN acc
    ELSE LET tag == tags[k]
             is_audit == tag.name = "cargo_audit"
             is_vendor == tag.name = "cargo_vendor"
             seen == [ has_audit |-> IF is_audit THEN TRUE ELSE acc.has_audit,
                       lockfile |-> IF is_audit
                                    THEN attr_lockfile(tag.params, 1, acc.lockfile)
                                    ELSE acc.lockfile,
                       has_vendor |-> IF is_vendor THEN TRUE ELSE acc.has_vendor,
                       has_vendor_update |-> IF is_vendor
                                    THEN attr_update(tag.params, 1, acc.has_vendor_update)
                                    ELSE acc.has_vendor_update,
                       written |-> IF is_audit \/ is_vendor
                                   THEN acc.written
                                   ELSE Append(acc.written, tag) ]
         IN  IF (is_audit \/ is_vendor) /\ k < Len(tags)
             THEN scan_tags_live(tags, k + 2,
                     [seen EXCEPT !.written = Append(@, tags[k + 1])])
             ELSE scan_tags_live(tags, k + 1, seen)

RECURSIVE scan_tags(_, _, _)
scan_tags(tags, k, acc) ==
    IF k > Len(tags) THEN acc
    ELSE LET tag == tags[k]
             is_audit == tag.name = "cargo_audit"
             is_vendor == tag.name = "cargo_vendor"
         IN  scan_tags(tags, k + 1,
                [ has_audit |-> IF is_audit THEN TRUE ELSE acc.has_audit,
                  lockfile |-> IF is_audit
                               THEN attr_lockfile(tag.params, 1, acc.lockfile)
                               ELSE acc.lockfile,
                  has_vendor |-> IF is_vendor THEN TRUE ELSE acc.has_vendor,
                  has_vendor_update |-> IF is_vendor
                               THEN attr_update(tag.params, 1, acc.has_vendor_update)
                               ELSE acc.has_vendor_update,
                  written |-> IF is_audit \/ is_vendor
                              THEN acc.written
                              ELSE Append(acc.written, tag) ])

\* what a call does: it returns a value, or an exception leaves it
Return(v) == [raised |-> FALSE, value |-> v]
Raise == [raised |-> TRUE, value |-> FALSE]

\* a slip: tree.write is left out, the file stays as it was
does_have_cargo_audit_unwritten(service) ==
    IF service.exists /\ service.wellformed
    THEN LET r == scan_tags(service.tags, 1,
                    [ has_audit |-> FALSE, lockfile |-> None, has_vendor |-> FALSE,
                      has_vendor_update |-> FALSE, written |-> <<>> ])
         IN  [ raised |-> FALSE, has_services |-> TRUE, has_audit |-> r.has_audit,
               has_vendor |-> r.has_vendor,
               has_vendor_update |-> r.has_vendor_update,
               lockfile |-> r.lockfile, written |-> service ]
    ELSE [ raised |-> service.exists, has_services |-> FALSE, has_audit |-> FALSE,
           has_vendor |-> FALSE, has_vendor_update |-> FALSE,
           lockfile |-> None, written |-> service ]

\* the tuple does_have_cargo_audit returns, and the descriptor it leaves
\* (written); ET.parse raises on a file that is no XML
does_have_cargo_audit(service) ==
    IF service.exists
    THEN IF ~service.wellformed
         THEN [ raised |-> TRUE, has_services |-> FALSE, has_audit |-> FALSE,
                has_vendor |-> FALSE, has_vendor_update |-> FALSE,
                lockfile |-> None, written |-> service ]
         ELSE LET r == scan_tags(service.tags, 1,
                    [ has_audit |-> FALSE, lockfile |-> None, has_vendor |-> FALSE,
                      has_vendor_update |-> FALSE, written |-> <<>> ])
              IN  [ raised |-> FALSE, has_services |-> TRUE, has_audit |-> r.has_audit,
                    has_vendor |-> r.has_vendor,
                    has_vendor_update |-> r.has_vendor_update,
                    lockfile |-> r.lockfile, written |-> File(r.written) ]
    ELSE [ raised |-> FALSE, has_services |-> FALSE, has_audit |-> FALSE,
           has_vendor |-> FALSE, has_vendor_update |-> FALSE,
           lockfile |-> None, written |-> service ]

(***************************************************************************)
(* The scan report of cargo_audit.do_cargo_audit: a sequence of entries    *)
(* shaped {vulnerabilities: {list: [{advisory: {id}}]}}.  Raised: the call *)
(* raised instead of returning a report.                                   *)
(***************************************************************************)
Raised == [raised |-> TRUE, report |-> <<>>]
Returned(report) == [raised |-> FALSE, report |-> report]

Advisory(id) == [advisory |-> [id |-> id]]
Entry(ids) == [vulnerabilities |-> [list |-> [k \in 1..Len(ids) |-> Advisory(ids[k])]]]

Entries == {Entry(ids) : ids \in SeqsUpTo(AdvisoryIds, MaxAdvisories)}
Reports == SeqsUpTo(Entries, MaxEntries)
ScanResults == {Raised} \cup {Returned(report) : report \in Reports}

\* a slip: affected is assigned the comparison, the last advisory decides
RECURSIVE advisory_loop_last(_, _, _, _)
advisory_loop_last(list, k, rustsec_id, affected) ==
    IF k > Len(list) THEN affected
    ELSE advisory_loop_last(list, k + 1, rustsec_id,
            list[k].advisory.id = rustsec_id)

\* for advisory in report["vulnerabilities"]["list"]
RECURSIVE advisory_loop(_, _, _, _)
advisory_loop(list, k, rustsec_id, affected) ==
    IF k > Len(list) THEN affected
    ELSE advisory_loop(list, k + 1, rustsec_id,
            IF list[k].advisory.id = rustsec_id THEN TRUE ELSE affected)

\* for report in scan
RECURSIVE report_loop(_, _, _, _)
report_loop(scan, k, rustsec_id, affected) ==
    IF k > Len(scan) THEN affected
    ELSE report_loop(scan, k + 1, rustsec_id,
            advisory_loop(scan[k].vulnerabilities.list, 1, rustsec_id, affected))

\* a slip: the except clause is missing, the exception leaves the function
do_unpack_scan_propagates(scan, rustsec_id) ==
    IF scan.raised THEN Raise
    ELSE IF rustsec_id # None
         THEN Return(~report_loop(scan.report, 1, rustsec_id, FALSE))
         ELSE Return(Len(scan.report) = 0)

\* a slip: the except clause swallows the exception and reports "passed"
do_unpack_scan_swallows(scan, rustsec_id) ==
    IF scan.raised THEN Return(TRUE)
    ELSE IF rustsec_id # None
         THEN Return(~report_loop(scan.report, 1, rustsec_id, FALSE))
         ELSE Return(Len(scan.report) = 0)

\* a slip: without an id the advisories are counted, not the entries
do_unpack_scan_counts(scan, rustsec_id) ==
    IF scan.raised THEN Return(FALSE)
    ELSE IF rustsec_id # None
         THEN Return(~report_loop(scan.report, 1, rustsec_id, FALSE))
         ELSE Return(\A k \in 1..Len(scan.report) :
                        Len(scan.report[k].vulnerabilities.list) = 0)

\* do_unpack_scan, given what do_cargo_audit did: TRUE is "passed"
do_unpack_scan(scan, rustsec_id) ==
    IF scan.raised THEN Return(FALSE)
    ELSE IF rustsec_id # None
         THEN LET affected == report_loop(scan.report, 1, rustsec_id, FALSE)
              IN  IF ~affected THEN Return(TRUE) ELSE Return(FALSE)
         ELSE IF Len(scan.report) = 0 THEN Return(TRUE) ELSE Return(FALSE)

(***************************************************************************)
(* do_services: check_output of `osc service ra` in the sandbox either     *)
(* returns (exit status 0) or raises CalledProcessError (any other).       *)
(***************************************************************************)
ExitStatus == {0, 1}

\* a slip: the except clause is missing, CalledProcessError leaves the function
do_services_raises(status) ==
    IF status = 0 THEN Return(TRUE) ELSE Raise

do_services(status) ==
    IF status = 0 THEN Return(TRUE) ELSE Return(FALSE)

(***************************************************************************)
(* checkout_or_update: the osc commands it issues, in order.               *)
(***************************************************************************)
\* a slip: the test of should_setup before osc up is lost
checkout_or_update_up_always(exists, setup) ==
    IF exists
    THEN <<"revert", "clean", "up">>
    ELSE IF setup THEN <<"co">> ELSE <<>>

\* a slip: the branch of the fresh checkout is lost
checkout_or_update_no_co(exists, setup) ==
    IF exists
    THEN <<"revert", "clean">> \o (IF setup THEN <<"up">> ELSE <<>>)
    ELSE <<>>

checkout_or_update(exists, setup) ==
    IF exists
    THEN <<"revert", "clean">> \o (IF setup THEN <<"up">> ELSE <<>>)
    ELSE IF setup THEN <<"co">> ELSE <<>>

\* a slip: the reference is formed with args.obs_repo, not the devel project
QualRef_repo(projects, pkgname) == "openSUSE:Factory" \o "/" \o pkgname

\* f"{devel_projects[pkgname]}/{pkgname}"
QualRef(projects, pkgname) == projects[pkgname] \o "/" \o pkgname

(***************************************************************************)
(* The state of one run.                                                   *)
(***************************************************************************)
VARIABLES
    depends,               \* args.package, or what list_whatdepends returned
    should_setup,          \* FALSE with --assume-setup
    rustsec_id,            \* --rustsec-id, or None
    exists,                \* package -> the working copy directory exists
    service,               \* package -> the _service of the working copy
    devel_projects,        \* the dict devel_projects
    lockfiles,             \* the dict lockfiles
    auditable_depends,     \* list of package names
    unpack_depends,        \* list of (pkgname, has_services)
    need_vendor_services,  \* set of project/package
    maybe_vuln,            \* set of project/package
    slow_update,           \* set of project/package
    fast_update,           \* set of project/package
    output,                \* the sections of the summary that were printed
    pc,                    \* the loop or statement of __main__ that runs next
    i,                     \* the index of that loop
    log,                   \* history: every external call, in order
    inspected,             \* history: what each does_have_cargo_audit returned
    outcome,               \* history: how each scan ended
    unit                   \* one call of do_unpack_scan taken alone (SpecScan)

vars == << depends, should_setup, rustsec_id, exists, service, devel_projects,
           lockfiles, auditable_depends, unpack_depends, need_vendor_services,
           maybe_vuln, slow_update, fast_update, output, pc, i, log, inspected,
           outcome, unit >>

inputs == << depends, should_setup, rustsec_id, unit >>

\* no call of do_unpack_scan is looked at alone
Idle == [scan |-> Raised, rustsec_id |-> None, called |-> FALSE, ret |-> Raise]

Call(op, pkgname, ok) == [op |-> op, pkg |-> pkgname, ok |-> ok]

\* a dict with one more (or one replaced) key
Put(dict, key, value) ==
    [k \in DOMAIN dict \cup {key} |-> IF k = key THEN value ELSE dict[k]]

EmptyDict == [k \in {} |-> None]

\* the first loop of __main__ that has something to iterate over
FirstLoop(deps) ==
    IF Len(deps) > 0 THEN "resolve" ELSE "classify"

\* a slip: the test of args.should_setup is missing
AfterCheckoutLoop_always(setup, auditable, unpack) ==
    IF Len(auditable) > 0 THEN "services"
    ELSE IF Len(unpack) > 0 THEN "unpack_services"
    ELSE "scan"

\* where control goes when the checkout loop is over (line 234)
AfterCheckoutLoop(setup, auditable, unpack) ==
    IF setup /\ Len(auditable) > 0 THEN "services"
    ELSE IF setup /\ Len(unpack) > 0 THEN "unpack_services"
    ELSE "scan"

\* where control goes when the loop over auditable_depends is over (line 240)
AfterServicesLoop(unpack) ==
    IF Len(unpack) > 0 THEN "unpack_services" ELSE "scan"

Init ==
    /\ depends \in SeqsUpTo(Packages, MaxDepends)
    /\ should_setup \in BOOLEAN
    /\ rustsec_id \in RunIds
    /\ exists \in [Packages -> BOOLEAN]
    /\ \A p \in Packages : exists[p] => \E k \in 1..Len(depends) : depends[k] = p
    \* a working copy that exists is one an earlier run left, its _service
    \* stripped
    /\ service = [p \in Packages |-> IF exists[p] THEN File(<<>>) ELSE NoFile]
    /\ devel_projects = EmptyDict
    /\ lockfiles = EmptyDict
    /\ auditable_depends = <<>>
    /\ unpack_depends = <<>>
    /\ need_vendor_services = {}
    /\ maybe_vuln = {}
    /\ slow_update = {}
    /\ fast_update = {}
    /\ output = <<>>
    /\ pc = FirstLoop(depends)
    /\ i = 1
    /\ log = <<>>
    /\ inspected = <<>>
    /\ outcome = <<>>
    /\ unit = Idle

(***************************************************************************)
(* for pkgname in depends: devel_projects[pkgname] = get_develproject(...) *)
(* get_develproject re-raises the CalledProcessError of `osc dp`.          *)
(***************************************************************************)
GetDevelProject ==
    /\ pc = "resolve"
    /\ LET pkgname == depends[i] IN
       \/ /\ devel_projects' = Put(devel_projects, pkgname, DevelProject[pkgname])
          /\ log' = Append(log, Call("dp", pkgname, TRUE))
          /\ IF i < Len(depends)
             THEN pc' = "resolve" /\ i' = i + 1
             ELSE pc' = "checkout" /\ i' = 1
       \/ /\ log' = Append(log, Call("dp", pkgname, FALSE))
          /\ pc' = "aborted"
          /\ UNCHANGED << devel_projects, i >>
    /\ UNCHANGED << inputs, exists, service, lockfiles, auditable_depends,
                    unpack_depends, need_vendor_services, maybe_vuln, slow_update,
                    fast_update, output, inspected, outcome >>

(***************************************************************************)
(* checkout_or_update(pkgname, ...) of line 210.  Each osc command either  *)
(* succeeds or fails; the first that fails is logged and re-raised, which  *)
(* ends the run.  failed = 0: none fails.  revert and co leave the         *)
(* _service that is checked in, whatever it is.                            *)
(***************************************************************************)
CheckoutOrUpdate ==
    /\ pc = "checkout"
    /\ LET pkgname == depends[i]
           cmds == checkout_or_update(exists[pkgname], should_setup)
       IN  \E failed \in 0..Len(cmds) :
             LET issued == IF failed = 0 THEN cmds ELSE SubSeq(cmds, 1, failed)
                 calls == [k \in 1..Len(issued) |->
                             Call(issued[k], pkgname, k # failed)]
             IN  /\ log' = log \o calls
                 /\ IF failed # 0
                    THEN /\ pc' = "aborted"
                         /\ UNCHANGED << exists, service >>
                    ELSE /\ pc' = "inspect"
                         /\ IF Len(cmds) > 0
                            THEN /\ exists' = [exists EXCEPT ![pkgname] = TRUE]
                                 /\ \E d \in Descriptors :
                                      service' = [service EXCEPT ![pkgname] = d]
                            ELSE UNCHANGED << exists, service >>
    /\ UNCHANGED << inputs, devel_projects, lockfiles, auditable_depends,
                    unpack_depends, need_vendor_services, maybe_vuln, slow_update,
                    fast_update, output, i, inspected, outcome >>

(***************************************************************************)
(* Lines 215-223: the notices printed for a package after its inspection.  *)
(***************************************************************************)
\* a slip: the auto update test is nested under the vendor test
notices_nested(has_audit, has_vendor, has_vendor_update) ==
    (IF ~has_vendor THEN {"missing cargo_vendor"} ELSE {})
    \cup (IF ~has_vendor /\ ~has_vendor_update
          THEN {"missing cargo_vendor auto update"} ELSE {})
    \cup (IF ~has_audit THEN {"missing cargo_audit"} ELSE {})

notices(has_audit, has_vendor, has_vendor_update) ==
    (IF ~has_vendor THEN {"missing cargo_vendor"} ELSE {})
    \cup (IF ~has_vendor_update THEN {"missing cargo_vendor auto update"} ELSE {})
    \cup (IF ~has_audit THEN {"missing cargo_audit"} ELSE {})

(***************************************************************************)
(* Lines 221-232: the list a package is appended to.                       *)
(***************************************************************************)
\* a slip: the else of line 230 is lost, every package is appended
auditable_append_always(auditable, pkgname, has_audit) ==
    Append(auditable, pkgname)

auditable_append(auditable, pkgname, has_audit) ==
    IF ~has_audit THEN auditable ELSE Append(auditable, pkgname)

unpack_append(unpack, pkgname, has_audit, has_services) ==
    IF ~has_audit THEN Append(unpack, <<pkgname, has_services>>) ELSE unpack

(***************************************************************************)
(* Line 208: for pkgname in depends; what follows the body of position k.  *)
(***************************************************************************)
\* a slip: the loop stops one package short
AfterInspect_short(k, deps, setup, auditable, unpack) ==
    IF k < Len(deps) - 1
    THEN "checkout"
    ELSE AfterCheckoutLoop(setup, auditable, unpack)

AfterInspect(k, deps, setup, auditable, unpack) ==
    IF k < Len(deps)
    THEN "checkout"
    ELSE AfterCheckoutLoop(setup, auditable, unpack)

(***************************************************************************)
(* Line 247: for pkgname in depends; what follows the scan of position k.  *)
(***************************************************************************)
\* a slip: the loop stops one package short
AfterScan_short(k, deps) == IF k < Len(deps) - 1 THEN "scan" ELSE "classify"

AfterScan(k, deps) == IF k < Len(deps) THEN "scan" ELSE "classify"

(***************************************************************************)
(* Lines 212-232: does_have_cargo_audit rewrites the _service and returns  *)
(* the flags; the loop body records the lockfile, prints the notices,      *)
(* records the missing vendor step and the list the package belongs to.    *)
(***************************************************************************)
Inspect ==
    /\ pc = "inspect"
    /\ LET pkgname == depends[i]
           r == does_have_cargo_audit(service[pkgname])
       IN  IF r.raised
           THEN /\ pc' = "aborted"
                /\ log' = Append(log, Call("inspect", pkgname, FALSE))
                /\ UNCHANGED << service, lockfiles, need_vendor_services,
                                auditable_depends, unpack_depends, i, inspected >>
           ELSE /\ service' = [service EXCEPT ![pkgname] = r.written]
                /\ log' = Append(log, Call("inspect", pkgname, TRUE))
                /\ inspected' = Append(inspected,
                        [ pkg |-> pkgname, has_services |-> r.has_services,
                          has_audit |-> r.has_audit, has_vendor |-> r.has_vendor,
                          has_vendor_update |-> r.has_vendor_update,
                          lockfile |-> r.lockfile,
                          notices |-> notices(r.has_audit, r.has_vendor,
                                              r.has_vendor_update) ])
                /\ lockfiles' = Put(lockfiles, pkgname, r.lockfile)
                /\ need_vendor_services' =
                        IF ~r.has_vendor
                        THEN need_vendor_services \cup {QualRef(devel_projects, pkgname)}
                        ELSE need_vendor_services
                /\ unpack_depends' =
                        unpack_append(unpack_depends, pkgname, r.has_audit,
                                      r.has_services)
                /\ auditable_depends' =
                        auditable_append(auditable_depends, pkgname, r.has_audit)
                /\ pc' = AfterInspect(i, depends, should_setup,
                                      auditable_depends', unpack_depends')
                /\ i' = IF pc' = "checkout" THEN i + 1 ELSE 1
    /\ UNCHANGED << inputs, exists, devel_projects, maybe_vuln, slow_update,
                    fast_update, output, outcome >>

(***************************************************************************)
(* Lines 235-238: do_services for every package of auditable_depends.      *)
(* do_services is called with no handler around it: an exception that left *)
(* it would end the run.                                                   *)
(***************************************************************************)
Services ==
    /\ pc = "services"
    /\ LET pkgname == auditable_depends[i] IN
       \E status \in ExitStatus :
         LET r == do_services(status) IN
         IF r.raised
         THEN /\ pc' = "aborted"
              /\ log' = Append(log, Call("services", pkgname, FALSE))
              /\ UNCHANGED i
         ELSE /\ log' = Append(log, Call("services", pkgname, r.value))
              /\ IF i < Len(auditable_depends)
                 THEN pc' = "services" /\ i' = i + 1
                 ELSE pc' = AfterServicesLoop(unpack_depends) /\ i' = 1
    /\ UNCHANGED << inputs, exists, service, devel_projects, lockfiles,
                    auditable_depends, unpack_depends, need_vendor_services,
                    maybe_vuln, slow_update, fast_update, output, inspected,
                    outcome >>

(***************************************************************************)
(* Lines 240-244: do_services for the packages of unpack_depends that have *)
(* a _service file; the others are only passed over.                       *)
(***************************************************************************)
UnpackServices ==
    /\ pc = "unpack_services"
    /\ LET pkgname == unpack_depends[i][1]
           has_services == unpack_depends[i][2]
           next_pc == IF i < Len(unpack_depends) THEN "unpack_services" ELSE "scan"
           next_i == IF i < Len(unpack_depends) THEN i + 1 ELSE 1
       IN  IF has_services
           THEN \E status \in ExitStatus :
                  LET r == do_services(status) IN
                  IF r.raised
                  THEN /\ pc' = "aborted"
                       /\ log' = Append(log, Call("services", pkgname, FALSE))
                       /\ UNCHANGED i
                  ELSE /\ log' = Append(log, Call("services", pkgname, r.value))
                       /\ pc' = next_pc
                       /\ i' = next_i
           ELSE /\ pc' = next_pc
                /\ i' = next_i
                /\ UNCHANGED log
    /\ UNCHANGED << inputs, exists, service, devel_projects, lockfiles,
                    auditable_depends, unpack_depends, need_vendor_services,
                    maybe_vuln, slow_update, fast_update, output, inspected,
                    outcome >>

(***************************************************************************)
(* Lines 247-252: do_unpack_scan for every package of depends; a package   *)
(* whose scan did not pass joins maybe_vuln.  do_unpack_scan is called     *)
(* with no handler around it.  outcome keeps how the scan ended:           *)
(* "ScanFailed" when do_cargo_audit raised, else "Clean" or "Affected" as  *)
(* do_unpack_scan read the report.                                         *)
(***************************************************************************)
Scan ==
    /\ pc = "scan"
    /\ LET pkgname == depends[i] IN
       \E scan \in ScanResults :
         LET r == do_unpack_scan(scan, rustsec_id) IN
         IF r.raised
         THEN /\ pc' = "aborted"
              /\ log' = Append(log, Call("scan", pkgname, FALSE))
              /\ UNCHANGED << maybe_vuln, outcome, i >>
         ELSE /\ log' = Append(log, Call("scan", pkgname, r.value))
              /\ outcome' = Append(outcome,
                      [ pkg |-> pkgname,
                        tag |-> IF scan.raised THEN "ScanFailed"
                                ELSE IF r.value THEN "Clean" ELSE "Affected" ])
              /\ maybe_vuln' =
                      IF ~r.value
                      THEN maybe_vuln \cup {QualRef(devel_projects, pkgname)}
                      ELSE maybe_vuln
              /\ pc' = AfterScan(i, depends)
              /\ i' = IF pc' = "scan" THEN i + 1 ELSE 1
    /\ UNCHANGED << inputs, exists, service, devel_projects, lockfiles,
                    auditable_depends, unpack_depends, need_vendor_services,
                    slow_update, fast_update, output, inspected >>

(***************************************************************************)
(* Lines 254-259: the set algebra of the remediation sets.                 *)
(***************************************************************************)
\* a slip: the set is not intersected but subtracted
slow_update_inverted(maybe, need) == maybe \ need

\* slow_update = maybe_vuln & need_vendor_services
slow_update_set(maybe, need) == maybe \cap need

\* a slip: the slow set is not taken out
fast_update_whole(maybe, slow) == maybe

\* fast_update = maybe_vuln - slow_update
fast_update_set(maybe, slow) == maybe \ slow

\* a slip: line 257 is left out
need_vendor_services_kept(need, maybe, fast) == need

\* a slip: only the fast set is taken out
need_vendor_services_less_fast(need, maybe, fast) == need \ fast

\* need_vendor_services -= maybe_vuln
need_vendor_services_rest(need, maybe, fast) == need \ maybe

\* maybe_vuln -= fast_update
maybe_vuln_rest(maybe, fast) == maybe \ fast

Classify ==
    /\ pc = "classify"
    /\ LET slow == slow_update_set(maybe_vuln, need_vendor_services)
           fast == fast_update_set(maybe_vuln, slow)
       IN  /\ slow_update' = slow
           /\ fast_update' = fast
           /\ need_vendor_services' =
                  need_vendor_services_rest(need_vendor_services, maybe_vuln, fast)
           /\ maybe_vuln' = maybe_vuln_rest(maybe_vuln, fast)
    /\ pc' = "report"
    /\ UNCHANGED << inputs, exists, service, devel_projects, lockfiles,
                    auditable_depends, unpack_depends, output, i, log,
                    inspected, outcome >>

(***************************************************************************)
(* Lines 261-286: the summary.  A section is printed when its set is not   *)
(* empty; its header depends on rustsec_id.                                *)
(***************************************************************************)
Section(title, items) == [title |-> title, items |-> items]

Summary(fast, slow, vendor, id) ==
    (IF Cardinality(fast) > 0
     THEN << Section(IF id # None THEN "SECURITY updates to address id - svc setup"
                     ELSE "SECURITY updates - svc setup", fast) >>
     ELSE <<>>)
    \o
    (IF Cardinality(slow) > 0
     THEN << Section(IF id # None
                     THEN "SECURITY updates to address id - manual, missing cargo_vendor"
                     ELSE "SECURITY updates - manual", slow) >>
     ELSE <<>>)
    \o
    (IF Cardinality(vendor) > 0
     THEN << Section("NOT vulnerable but SHOULD have cargo_vendor", vendor) >>
     ELSE <<>>)

Report ==
    /\ pc = "report"
    /\ output' = Summary(fast_update, slow_update, need_vendor_services, rustsec_id)
    /\ pc' = "done"
    /\ UNCHANGED << inputs, exists, service, devel_projects, lockfiles,
                    auditable_depends, unpack_depends, need_vendor_services,
                    maybe_vuln, slow_update, fast_update, i, log, inspected,
                    outcome >>

Next ==
    \/ GetDevelProject
    \/ CheckoutOrUpdate
    \/ Inspect
    \/ Services
    \/ UnpackServices
    \/ Scan
    \/ Classify
    \/ Report

Spec == Init /\ [][Next]_vars

\* the script runs on: a step that can be taken is taken (every external call
\* is a blocking call that returns)
FairSpec == Spec /\ WF_vars(Next)

(***************************************************************************)
(* do_unpack_scan taken alone: one call, on any result of do_cargo_audit   *)
(* and any --rustsec-id, among them an id that no report holds.            *)
(***************************************************************************)
QueriedIds == {None} \cup AdvisoryIds \cup {"RUSTSEC-2023-0003"}

InitScan ==
    /\ depends = <<>>
    /\ should_setup = TRUE
    /\ rustsec_id = None
    /\ exists = [p \in Packages |-> FALSE]
    /\ service = [p \in Packages |-> NoFile]
    /\ devel_projects = EmptyDict
    /\ lockfiles = EmptyDict
    /\ auditable_depends = <<>>
    /\ unpack_depends = <<>>
    /\ need_vendor_services = {}
    /\ maybe_vuln = {}
    /\ slow_update = {}
    /\ fast_update = {}
    /\ output = <<>>
    /\ pc = "do_unpack_scan"
    /\ i = 1
    /\ log = <<>>
    /\ inspected = <<>>
    /\ outcome = <<>>
    /\ \E scan \in ScanResults, id \in QueriedIds :
         unit = [scan |-> scan, rustsec_id |-> id, called |-> FALSE, ret |-> Raise]

DoUnpackScan ==
    /\ pc = "do_unpack_scan"
    /\ ~unit.called
    /\ unit' = [unit EXCEPT !.called = TRUE,
                            !.ret = do_unpack_scan(unit.scan, unit.rustsec_id)]
    /\ UNCHANGED << depends, should_setup, rustsec_id, exists, service,
                    devel_projects, lockfiles, auditable_depends, unpack_depends,
                    need_vendor_services, maybe_vuln, slow_update, fast_update,
                    output, pc, i, log, inspected, outcome >>

SpecScan == InitScan /\ [][DoUnpackScan]_vars

(***************************************************************************)
(* does_have_cargo_audit taken alone: the function is called on a _service *)
(* file and then again on the file it left, up to MaxPasses times.  The    *)
(* steps of these files are of more kinds than the ones of the runs: a     *)
(* cargo_audit step without lockfile or with another one, a cargo_vendor   *)
(* step without param, a step of another service with a param update.     *)
(***************************************************************************)
\* most calls of does_have_cargo_audit on one file
MaxPasses == 2

InspectedSteps ==
    Steps \cup
    { Service("cargo_audit", <<>>),
      Service("cargo_audit", <<Param("lockfile", "sub/Cargo.lock")>>),
      Service("cargo_vendor", <<>>),
      Service("obs_scm", <<Param("update", "true")>>) }

InspectedDescriptors ==
    {NoFile, Malformed} \cup {File(tags) : tags \in SeqsUpTo(InspectedSteps, MaxSteps)}

InitInspect ==
    /\ depends = <<>>
    /\ should_setup = TRUE
    /\ rustsec_id = None
    /\ exists = [p \in Packages |-> FALSE]
    /\ service = [p \in Packages |-> NoFile]
    /\ devel_projects = EmptyDict
    /\ lockfiles = EmptyDict
    /\ auditable_depends = <<>>
    /\ unpack_depends = <<>>
    /\ need_vendor_services = {}
    /\ maybe_vuln = {}
    /\ slow_update = {}
    /\ fast_update = {}
    /\ output = <<>>
    /\ pc = "does_have_cargo_audit"
    /\ i = 1
    /\ log = <<>>
    /\ inspected = <<>>
    /\ outcome = <<>>
    /\ \E d \in InspectedDescriptors :
         unit = [service |-> d, file |-> d, rets |-> <<>>]

\* one call on the file as it is now; a call that raised ends the run
DoesHaveCargoAudit ==
    /\ pc = "does_have_cargo_audit"
    /\ Len(unit.rets) < MaxPasses
    /\ \A k \in 1..Len(unit.rets) : ~unit.rets[k].raised
    /\ LET r == does_have_cargo_audit(unit.file)
       IN  unit' = [unit EXCEPT !.file = r.written, !.rets = Append(@, r)]
    /\ UNCHANGED << depends, should_setup, rustsec_id, exists, service,
                    devel_projects, lockfiles, auditable_depends, unpack_depends,
                    need_vendor_services, maybe_vuln, slow_update, fast_update,
                    output, pc, i, log, inspected, outcome >>

SpecInspect == InitInspect /\ [][DoesHaveCargoAudit]_vars

(***************************************************************************)
(* list_whatdepends taken alone.  A string is the sequence of its          *)
(* characters; the answer of `osc whatdependson` is made of lines that end *)
(* with a newline.                                                         *)
(***************************************************************************)
\* most lines of one answer of osc whatdependson
MaxLines == 4

\* lines 18-30
EXCLUDE ==
    { "MozillaFirefox", "MozillaThunderbird", "rust", "obs-service-cargo_audit",
      "cargo-audit-advisory-db", "rust-packaging", "seamonkey", "meson:test" }

\* the exclusion sets list_whatdepends is tried with: the one of the script
\* and one that names a package of the answers
ExcludeSets == {EXCLUDE, {"bar"}}

Whitespace == {" ", "\t", "\n", "\r"}

\* the lines an answer is made of
ResponseLines ==
    { <<"r", "u", "s", "t">>,
      <<"f", "o", "o">>,
      <<"b", "a", "r">>,
      <<"b", "a", "r", ":", "t", "e", "s", "t">>,
      <<" ", "f", "o", "o", " ">>,
      <<>> }

RECURSIVE Unlines(_)
Unlines(lines) ==
    IF lines = <<>> THEN <<>>
    ELSE Head(lines) \o <<"\n">> \o Unlines(Tail(lines))

Responses == {Unlines(lines) : lines \in SeqsUpTo(ResponseLines, MaxLines)}

\* str.split(sep): the pieces between the separators, empty ones included
RECURSIVE split(_, _, _, _, _)
split(str, sep, k, piece, pieces) ==
    IF k > Len(str) THEN Append(pieces, piece)
    ELSE IF str[k] = sep
         THEN split(str, sep, k + 1, <<>>, Append(pieces, piece))
         ELSE split(str, sep, k + 1, Append(piece, str[k]), pieces)

\* str.strip()
RECURSIVE lstrip(_)
lstrip(str) ==
    IF str # <<>> /\ Head(str) \in Whitespace THEN lstrip(Tail(str)) ELSE str

RECURSIVE rstrip(_)
rstrip(str) ==
    IF str # <<>> /\ str[Len(str)] \in Whitespace
    THEN rstrip(SubSeq(str, 1, Len(str) - 1))
    ELSE str

strip(str) == rstrip(lstrip(str))

\* the string of a sequence of characters
RECURSIVE Str(_)
Str(chars) == IF chars = <<>> THEN "" ELSE Head(chars) \o Str(Tail(chars))

NotEmpty(x) == x # <<>>
NoColon(x) == Len(split(x, ":", 1, <<>>, <<>>)) = 1

\* a slip: the first line is not removed
after_first_all(raw_depends) == raw_depends

\* raw_depends[1:]
after_first(raw_depends) == SubSeq(raw_depends, 2, Len(raw_depends))

\* lines 45-64
list_whatdepends(raw, exclude) ==
    LET raw_depends == split(raw, "\n", 1, <<>>, <<>>)
        rest == after_first(raw_depends)
        stripped == [k \in 1..Len(rest) |-> strip(rest[k])]
        nonempty == SelectSeq(stripped, NotEmpty)
        plain == SelectSeq(nonempty, NoColon)
        names == [k \in 1..Len(plain) |-> Str(plain[k])]
        NotExcluded(x) == x \notin exclude
    IN  SelectSeq(names, NotExcluded)

InitList ==
    /\ depends = <<>>
    /\ should_setup = TRUE
    /\ rustsec_id = None
    /\ exists = [p \in Packages |-> FALSE]
    /\ service = [p \in Packages |-> NoFile]
    /\ devel_projects = EmptyDict
    /\ lockfiles = EmptyDict
    /\ auditable_depends = <<>>
    /\ unpack_depends = <<>>
    /\ need_vendor_services = {}
    /\ maybe_vuln = {}
    /\ slow_update = {}
    /\ fast_update = {}
    /\ output = <<>>
    /\ pc = "list_whatdepends"
    /\ i = 1
    /\ log = <<>>
    /\ inspected = <<>>
    /\ outcome = <<>>
    /\ \E raw \in Responses, exclude \in ExcludeSets :
         unit = [raw |-> raw, exclude |-> exclude, called |-> FALSE, ret |-> <<>>]

\* lines 194-195: depends = list_whatdepends(...)
ListWhatdepends ==
    /\ pc = "list_whatdepends"
    /\ ~unit.called
    /\ unit' = [unit EXCEPT !.called = TRUE,
                            !.ret = list_whatdepends(unit.raw, unit.exclude)]
    /\ UNCHANGED << depends, should_setup, rustsec_id, exists, service,
                    devel_projects, lockfiles, auditable_depends, unpack_depends,
                    need_vendor_services, maybe_vuln, slow_update, fast_update,
                    output, pc, i, log, inspected, outcome >>

SpecList == InitList /\ [][ListWhatdepends]_vars

(***************************************************************************)
(* What the claims speak of.                                               *)
(***************************************************************************)
\* the qualified reference of a package, as the run forms it
Ref(pkgname) == QualRef(devel_projects, pkgname)

\* the run is past the set algebra of lines 254-259
Classified == pc \in {"report", "done"}

\* every scan has been made
AllScanned == pc \in {"classify", "report", "done"}

\* the packages whose scan outcome is not Clean
Vulnerable ==
    {outcome[k].pkg : k \in {n \in 1..Len(outcome) : outcome[n].tag # "Clean"}}

\* the packages whose manifest inspection reported no vendor step
LacksVendor ==
    {inspected[k].pkg : k \in {n \in 1..Len(inspected) : ~inspected[n].has_vendor}}

\* the packages of the input list
Input == {depends[k] : k \in 1..Len(depends)}

Refs(pkgs) == {Ref(p) : p \in pkgs}

\* C1: at the end of the run fast_update and slow_update are disjoint and
\* their union is the set of the packages whose scan outcome is not Clean.
C1_Partition ==
    Classified =>
        /\ fast_update \cap slow_update = {}
        /\ fast_update \cup slow_update = Refs(Vulnerable)

\* a run that ended with a package in each of fast_update and slow_update
C1_Witness ==
    /\ pc = "done"
    /\ fast_update # {}
    /\ slow_update # {}

\* C2: at the end of the run need_vendor_services holds no package whose
\* scan outcome is not Clean, and the three sets that are reported are
\* pairwise disjoint, as are the sections of the summary that is printed.
C2_Disjoint ==
    /\ Classified =>
        /\ need_vendor_services \cap Refs(Vulnerable) = {}
        /\ need_vendor_services \cap fast_update = {}
        /\ need_vendor_services \cap slow_update = {}
        /\ fast_update \cap slow_update = {}
    /\ pc = "done" =>
        /\ \A a, b \in 1..Len(output) :
              a # b => output[a].items \cap output[b].items = {}
        /\ {output[a].items : a \in 1..Len(output)}
              = {fast_update, slow_update, need_vendor_services} \ {{}}

\* a run in which a package without vendor step was found vulnerable (and so
\* left need_vendor_services) while another stayed in it
C2_Witness ==
    /\ pc = "done"
    /\ slow_update # {}
    /\ need_vendor_services # {}
    /\ Len(output) = 2

\* C7: at the end of the run fast_update is the vulnerable packages that have
\* a vendor step, slow_update the vulnerable ones that lack it, and
\* need_vendor_services the ones that are not vulnerable and lack it.  A
\* package lacks the vendor step when an inspection of it reported none.
C7_Exact ==
    Classified =>
        /\ fast_update = Refs(Vulnerable \ LacksVendor)
        /\ slow_update = Refs(Vulnerable \cap LacksVendor)
        /\ need_vendor_services = Refs(LacksVendor \ Vulnerable)
        /\ Vulnerable \cup LacksVendor \subseteq Input

\* a run of two packages, one vulnerable with a vendor step and one not
\* vulnerable without
C7_Witness ==
    /\ pc = "done"
    /\ Cardinality(fast_update) = 1
    /\ Cardinality(need_vendor_services) = 1
    /\ slow_update = {}
    /\ \E k \in 1..Len(inspected) : inspected[k].has_vendor

\* the last external call
LastCall == log[Len(log)]

\* the osc commands of checkout_or_update
CheckoutOps == {"revert", "clean", "up", "co"}

\* the packages of a sequence of records, in order
PkgsOf(seq) == [k \in 1..Len(seq) |-> seq[k].pkg]

IsServices(c) == c.op = "services"
IsScan(c) == c.op = "scan"

\* the calls of do_services and of do_unpack_scan, in order
Regenerations == SelectSeq(log, IsServices)
Scans == SelectSeq(log, IsScan)

\* the reported sets that hold a package
SetsOf(pkgname) ==
    {n \in {"fast", "slow", "vendor"} :
        Ref(pkgname) \in (CASE n = "fast" -> fast_update
                            [] n = "slow" -> slow_update
                            [] n = "vendor" -> need_vendor_services)}

\* every input package is in exactly one class: one of the three reported
\* sets, or none of them when it passed the scan and has a vendor step
ClassifiedOnce ==
    \A p \in Input :
        /\ Cardinality(SetsOf(p)) <= 1
        /\ SetsOf(p) = {} <=> (p \notin Vulnerable /\ p \notin LacksVendor)

C4_ScanErrorCaught ==
    /\ [][pc = "scan" => pc' \in {"scan", "classify"}]_vars
    /\ [](AllScanned =>
            /\ PkgsOf(outcome) = depends
            /\ PkgsOf(Scans) = depends
            /\ \A k \in 1..Len(outcome) :
                  outcome[k].tag = "ScanFailed" =>
                    /\ ~Scans[k].ok
                    /\ Ref(depends[k]) \in maybe_vuln \cup fast_update)
    /\ (pc = "scan") ~> Classified

\* the scan of the first package raised and the second package was scanned
\* all the same
C4_Witness ==
    /\ pc = "done"
    /\ Len(outcome) = 2
    /\ outcome[1].tag = "ScanFailed"
    /\ outcome[2].tag = "Clean"

\* C5 as stated: two packages that differ only in that one was found
\* affected and the scan of the other failed are not in the same final
\* state.
C5_Original ==
    Classified =>
        \A j, k \in 1..Len(outcome) :
            ( /\ outcome[j].tag = "Affected"
              /\ outcome[k].tag = "ScanFailed"
              /\ depends[j] # depends[k]
              /\ inspected[j].has_vendor = inspected[k].has_vendor )
            => SetsOf(depends[j]) # SetsOf(depends[k])

\* C5 as amended: the classification knows two outcomes only.  A scan that
\* failed and a package found affected both count as not passed: such
\* packages are in fast_update or slow_update, in the same one when they agree
\* on the vendor step, and a package whose every scan was Clean is in neither.
C5_Amended ==
    Classified =>
        /\ \A k \in 1..Len(outcome) :
              /\ outcome[k].tag \in {"Affected", "ScanFailed"} <=> ~Scans[k].ok
              /\ outcome[k].tag \in {"Affected", "ScanFailed"} =>
                    SetsOf(depends[k]) \in {{"fast"}, {"slow"}}
        /\ \A p, q \in Vulnerable :
              (p \in LacksVendor <=> q \in LacksVendor) => SetsOf(p) = SetsOf(q)
        /\ \A p \in Input \ Vulnerable : SetsOf(p) \cap {"fast", "slow"} = {}

\* an affected package and a package whose scan failed in the same set
C5_Witness ==
    /\ pc = "done"
    /\ \E j, k \in 1..Len(outcome) :
          /\ outcome[j].tag = "Affected"
          /\ outcome[k].tag = "ScanFailed"
          /\ depends[j] # depends[k]
          /\ SetsOf(depends[j]) = SetsOf(depends[k])

\* C6: do_services answers with a boolean and no exception leaves it when the
\* regeneration fails: the services loops are never left by ending the run,
\* a run that regenerates comes to the end of its scans, and every package
\* of the list is scanned, whether its regeneration succeeded, failed or was
\* not attempted.
C6_RegenThenScan ==
    /\ [][(pc \in {"services", "unpack_services"})
            => pc' \in {"services", "unpack_services", "scan"}]_vars
    /\ [](AllScanned => PkgsOf(Scans) = depends)
    /\ (pc \in {"services", "unpack_services"}) ~> AllScanned

\* a run in which the regeneration of one package failed, another package was
\* not regenerated, and both were scanned
C6_Witness ==
    /\ pc = "done"
    /\ Len(Regenerations) = 1
    /\ ~Regenerations[1].ok
    /\ Len(Scans) = 2
    /\ depends[1] # depends[2]

HasAudit(r) == r.has_audit
ManualWithDescriptor(r) == ~r.has_audit /\ r.has_services

\* C8: the packages that were regenerated are, in order, the packages whose
\* inspection reported an audit step and then those without audit step but
\* with a _service file; with --assume-setup none is.
C8_RegenerationOrder ==
    pc \in {"scan", "classify", "report", "done"} =>
        PkgsOf(Regenerations) =
            IF should_setup
            THEN PkgsOf(SelectSeq(inspected, HasAudit))
                 \o PkgsOf(SelectSeq(inspected, ManualWithDescriptor))
            ELSE <<>>

\* the package with the audit step came second in the list and was
\* regenerated first
C8_Witness ==
    /\ pc = "scan"
    /\ should_setup
    /\ Len(inspected) = 2
    /\ ~inspected[1].has_audit
    /\ inspected[2].has_audit
    /\ PkgsOf(Regenerations) = <<depends[2], depends[1]>>
    /\ depends[1] # depends[2]

\* the id is the id of some advisory record of some entry of the report
Holds(report, id) ==
    \E k \in 1..Len(report) :
        \E j \in 1..Len(report[k].vulnerabilities.list) :
            report[k].vulnerabilities.list[j].advisory.id = id

\* C9: with an advisory id and a report, do_unpack_scan answers False
\* (affected) exactly when the id is the id of some advisory record of some
\* entry of the report, whatever else the report holds.
C9_Targeted ==
    (unit.called /\ unit.rustsec_id # None /\ ~unit.scan.raised) =>
        /\ ~unit.ret.raised
        /\ unit.ret.value = ~Holds(unit.scan.report, unit.rustsec_id)

\* the report holds RUSTSEC-2023-0001 only, RUSTSEC-2023-0002 is asked for,
\* and the answer is "not affected"
C9_Witness ==
    /\ unit.called
    /\ unit.scan = Returned(<<Entry(<<"RUSTSEC-2023-0001">>)>>)
    /\ unit.rustsec_id = "RUSTSEC-2023-0002"
    /\ unit.ret = Return(TRUE)

\* C10: without an advisory id and with a report, do_unpack_scan answers True
\* (clean) exactly when the report is the empty sequence.
C10_General ==
    (unit.called /\ unit.rustsec_id = None /\ ~unit.scan.raised) =>
        /\ ~unit.ret.raised
        /\ unit.ret.value = (unit.scan.report = <<>>)

\* a report of one entry whose advisory list is empty counts as vulnerable
C10_Witness ==
    /\ unit.called
    /\ unit.rustsec_id = None
    /\ unit.scan = Returned(<<Entry(<<>>)>>)
    /\ unit.ret = Return(FALSE)

\* C11: the set algebra and the summary wait for the scan loop: once the run
\* is at the set algebra or past it every position of the input list has its
\* scan outcome, and while a position has none slow_update and fast_update
\* are empty, nothing of the summary is printed and need_vendor_services
\* still holds every package that was found without a vendor step.
C11_ScanBarrier ==
    /\ AllScanned => PkgsOf(outcome) = depends
    /\ Len(outcome) < Len(depends) =>
        /\ slow_update = {}
        /\ fast_update = {}
        /\ output = <<>>
        /\ need_vendor_services = Refs(LacksVendor)

\* a run of two packages that were both scanned before a set was computed
\* and reported
C11_Witness ==
    /\ pc = "done"
    /\ Len(depends) = 2
    /\ PkgsOf(outcome) = depends
    /\ fast_update \cup slow_update # {}
    /\ Len(output) > 0

\* the calls that work on a package after its devel project is known
PackageOps == CheckoutOps \cup {"inspect", "services", "scan"}

\* the loop of the run a call belongs to: lines 198-199, 208-232, 234-244
\* and 247-252
Phase(op) ==
    CASE op = "dp" -> 0
      [] op \in CheckoutOps \cup {"inspect"} -> 1
      [] op = "services" -> 2
      [] op = "scan" -> 3

\* C12 as stated: between the start of a package's checkout and the end of
\* its scan no checkout, inspection, regeneration or scan of another package
\* takes place.
C12_Original ==
    \A a, c \in 1..Len(log) :
        (/\ a < c
         /\ log[a].op \in CheckoutOps \cup {"inspect"}
         /\ log[c].op = "scan"
         /\ log[a].pkg = log[c].pkg)
        => \A b \in (a + 1)..(c - 1) :
              log[b].op \in PackageOps => log[b].pkg = log[a].pkg

\* C12 as amended: the run works in phases, not package by package.  The
\* calls follow one another in the order of the loops: every checkout and
\* inspection comes before every regeneration, and every regeneration before
\* every scan; a command of checkout_or_update that succeeded is followed at
\* once by the next command or the inspection of the same package; and when
\* the first regeneration or scan is made every position of the input list
\* has been inspected.
C12_Phased ==
    /\ \A a \in 1..(Len(log) - 1) :
          /\ Phase(log[a].op) <= Phase(log[a + 1].op)
          /\ (log[a].op \in CheckoutOps /\ log[a].ok) =>
                /\ log[a + 1].pkg = log[a].pkg
                /\ log[a + 1].op \in CheckoutOps \cup {"inspect"}
    /\ (\E b \in 1..Len(log) : log[b].op \in {"services", "scan"}) =>
          PkgsOf(inspected) = depends

\* a run of two packages in which both were checked out and inspected, then
\* both regenerated, then both scanned
C12_Witness ==
    /\ pc = "done"
    /\ depends = <<"foo", "bar">>
    /\ Len(Regenerations) = 2
    /\ \E a, b, c \in 1..Len(log) :
          /\ a < b /\ b < c
          /\ log[a].op = "co" /\ log[a].pkg = "foo"
          /\ log[b].op = "inspect" /\ log[b].pkg = "bar"
          /\ log[c].op = "scan" /\ log[c].pkg = "foo"

\* a step that is neither an audit step nor a vendor step
IsOtherStep(tag) == tag.name \notin {"cargo_audit", "cargo_vendor"}

HasStep(tags, name) == \E k \in 1..Len(tags) : tags[k].name = name

\* C13: the inspection of a _service file leaves the file with its other
\* steps only, unchanged and in their order, and no cargo_audit or
\* cargo_vendor step; it reports has_audit and has_vendor exactly when such
\* a step was in the file.  Without a _service file every flag is False, the
\* lockfile is None and nothing is written.
C13_Rewrite ==
    (Len(unit.rets) > 0 /\ ~unit.rets[1].raised) =>
        LET before == unit.service
            r == unit.rets[1]
        IN  IF before.exists
            THEN /\ r.has_services
                 /\ r.written = File(SelectSeq(before.tags, IsOtherStep))
                 /\ r.has_audit <=> HasStep(before.tags, "cargo_audit")
                 /\ r.has_vendor <=> HasStep(before.tags, "cargo_vendor")
            ELSE /\ ~r.has_services /\ ~r.has_audit /\ ~r.has_vendor
                 /\ ~r.has_vendor_update
                 /\ r.lockfile = None
                 /\ r.written = before

\* the inspection of a file that held an audit step and then another step
C13_Witness ==
    /\ Len(unit.rets) > 0
    /\ Len(unit.service.tags) = 2
    /\ unit.service.tags[1].name = "cargo_audit"
    /\ unit.service.tags[2].name = "download_files"
    /\ unit.rets[1].has_audit
    /\ Len(unit.rets[1].written.tags) = 1

\* the flags of a call of does_have_cargo_audit on a descriptor with neither
\* audit nor vendor step
NoneFound(r) ==
    /\ ~r.has_audit
    /\ ~r.has_vendor
    /\ ~r.has_vendor_update
    /\ r.lockfile = None

\* C14 as stated: a second call on the file the first call left leaves the
\* steps as they are and reports the flags of the first call (has_services,
\* has_vendor_update), except has_audit and has_vendor, which are False.
C14_Original ==
    \A k \in 2..Len(unit.rets) :
        /\ unit.rets[k].written = unit.rets[1].written
        /\ unit.rets[k].has_services = unit.rets[1].has_services
        /\ unit.rets[k].has_vendor_update = unit.rets[1].has_vendor_update
        /\ ~unit.rets[k].has_audit
        /\ ~unit.rets[k].has_vendor

\* C14 as amended: a second call on the file the first call left writes the
\* same steps in the same order and reports has_services as the first call
\* did; has_audit, has_vendor and has_vendor_update are False and the
\* lockfile is None, whatever the first call reported.
C14_Idempotent ==
    \A k \in 2..Len(unit.rets) :
        /\ ~unit.rets[k].raised
        /\ unit.rets[k].written = unit.rets[1].written
        /\ unit.rets[k].has_services = unit.rets[1].has_services
        /\ NoneFound(unit.rets[k])

\* two calls on a file that held a vendor step with auto update and an audit
\* step with a lockfile: the first call reported both, the second neither
C14_Witness ==
    /\ Len(unit.rets) = 2
    /\ unit.rets[1].has_vendor_update
    /\ unit.rets[1].lockfile = "Cargo.lock"
    /\ ~unit.rets[2].has_vendor_update
    /\ unit.rets[2].lockfile = None

\* the answer of the example: "rust\nfoo\nbar:test\nfoo\n"
ExampleResponse ==
    Unlines(<< <<"r", "u", "s", "t">>, <<"f", "o", "o">>,
               <<"b", "a", "r", ":", "t", "e", "s", "t">>, <<"f", "o", "o">> >>)

\* the entries of an answer that are kept: the lines after the first, without
\* the blanks around them, that are not empty, hold no colon and are no
\* excluded name
Kept(raw, exclude) ==
    LET lines == split(raw, "\n", 1, <<>>, <<>>)
        IsKept(x) == /\ x # ""
                     /\ x \notin exclude
                     /\ \A n \in 1..Len(x) : SubSeq(x, n, n) # ":"
    IN  SelectSeq([k \in 1..(Len(lines) - 1) |-> Str(strip(lines[k + 1]))], IsKept)

\* C15 as stated: the first line is discarded, the entries with a colon and
\* the excluded names are dropped, the others are kept in their order; and
\* for the answer of the example and the exclusion set {"bar"} the list is
\* exactly ["foo"].
C15_Original ==
    unit.called =>
        /\ unit.ret = Kept(unit.raw, unit.exclude)
        /\ (unit.raw = ExampleResponse /\ unit.exclude = {"bar"}) =>
              unit.ret = <<"foo">>

\* C15 as amended: the first line is discarded, the entries with a colon and
\* the excluded names are dropped, the others are kept in their order, an
\* entry as often as the answer holds it; for the answer of the example and
\* the exclusion set {"bar"} the list is ["foo", "foo"].
C15_Filtered ==
    unit.called =>
        /\ unit.ret = Kept(unit.raw, unit.exclude)
        /\ (unit.raw = ExampleResponse /\ unit.exclude = {"bar"}) =>
              unit.ret = <<"foo", "foo">>

\* the call on the answer of the example
C15_Witness ==
    /\ unit.called
    /\ unit.raw = ExampleResponse
    /\ unit.exclude = {"bar"}
    /\ Len(unit.ret) = 2

\* an inspection that found no audit step and a vendor step without auto
\* update
VendorNoUpdate(r) == ~r.has_audit /\ r.has_vendor /\ ~r.has_vendor_update

NoAudit(r) == ~r.has_audit

\* C16 as stated: a package with no audit step and a vendor step without
\* auto update is a member of the manual list and is recorded among the
\* packages the maintainers are to be notified of (need_vendor_services).
C16_Original ==
    pc \in {"services", "unpack_services", "scan", "classify"} =>
        \A k \in 1..Len(inspected) :
            VendorNoUpdate(inspected[k]) =>
                /\ \E j \in 1..Len(unpack_depends) :
                      unpack_depends[j][1] = inspected[k].pkg
                /\ Ref(inspected[k].pkg) \in need_vendor_services

\* C16 as amended: such a package is a member of the manual list
\* (unpack_depends is, in order, the packages found without audit step) and
\* the notice of the missing auto update is printed for it; the notice of a
\* missing vendor step is not, and the package is in none of
\* need_vendor_services and slow_update unless another inspection of it
\* found no vendor step.
C16_ManualAndNotice ==
    /\ [k \in 1..Len(unpack_depends) |-> unpack_depends[k][1]]
          = PkgsOf(SelectSeq(inspected, NoAudit))
    /\ \A k \in 1..Len(inspected) :
          VendorNoUpdate(inspected[k]) =>
              /\ inspected[k].notices =
                    {"missing cargo_vendor auto update", "missing cargo_audit"}
              /\ inspected[k].pkg \notin LacksVendor =>
                    Ref(inspected[k].pkg) \notin need_vendor_services \cup slow_update

\* a run that ended after it inspected a package with a vendor step without
\* auto update and no audit step, and found it vulnerable
C16_Witness ==
    /\ pc = "done"
    /\ Len(inspected) = 1
    /\ VendorNoUpdate(inspected[1])
    /\ Len(unpack_depends) = 1
    /\ fast_update # {}

\* the calls a step of the run added to the log
NewCalls == SubSeq(log', Len(log) + 1, Len(log'))

\* the osc commands of a sequence of calls
OpsOf(calls) == [k \in 1..Len(calls) |-> calls[k].op]

IsPrefix(s, t) == Len(s) <= Len(t) /\ s = SubSeq(t, 1, Len(s))

\* C17: checkout_or_update of a package whose working copy exists issues
\* revert, then clean, then up; without a working copy it issues co; with
\* --assume-setup it issues neither up nor co (revert and clean only, when
\* the working copy exists).  A command that fails ends the sequence.
C17_CheckoutCommands ==
    [][ (pc = "checkout") =>
          LET pkgname == depends[i]
              wanted == IF exists[pkgname]
                        THEN IF should_setup THEN <<"revert", "clean", "up">>
                             ELSE <<"revert", "clean">>
                        ELSE IF should_setup THEN <<"co">> ELSE <<>>
          IN  /\ \A k \in 1..Len(NewCalls) : NewCalls[k].pkg = pkgname
              /\ IsPrefix(OpsOf(NewCalls), wanted)
              /\ pc' = "inspect" => OpsOf(NewCalls) = wanted
              /\ ~should_setup =>
                    \A k \in 1..Len(log') : log'[k].op \notin {"up", "co"} ]_vars

\* a package listed twice: its working copy was checked out first and then,
\* as it existed, reverted, cleaned and updated
C17_Witness ==
    /\ pc = "inspect"
    /\ i = 2
    /\ should_setup
    /\ OpsOf(log) = <<"dp", "dp", "co", "inspect", "revert", "clean", "up">>

\* C18: the steps of a package follow one another in a fixed order.  An
\* inspection directly follows the checkout of the same package (its last
\* command: up or co; with --assume-setup clean, or no command at all); a
\* regeneration or a scan of a package comes after an inspection of it that
\* succeeded; and after a regeneration of a package no checkout or inspection
\* of it follows, after a scan of it no checkout, inspection or regeneration.
C18_StepOrder ==
    \A c \in 1..Len(log) :
        /\ log[c].op = "inspect" =>
              /\ c > 1
              /\ IF should_setup
                 THEN /\ log[c - 1].op \in {"up", "co"}
                      /\ log[c - 1].ok
                      /\ log[c - 1].pkg = log[c].pkg
                 ELSE log[c - 1].op \in CheckoutOps =>
                      /\ log[c - 1].op = "clean"
                      /\ log[c - 1].ok
                      /\ log[c - 1].pkg = log[c].pkg
        /\ log[c].op \in {"services", "scan"} =>
              \E a \in 1..(c - 1) :
                  /\ log[a].op = "inspect"
                  /\ log[a].ok
                  /\ log[a].pkg = log[c].pkg
        /\ log[c].op = "services" =>
              \A b \in (c + 1)..Len(log) :
                  log[b].pkg = log[c].pkg =>
                      log[b].op \notin CheckoutOps \cup {"inspect"}
        /\ log[c].op = "scan" =>
              \A b \in (c + 1)..Len(log) :
                  log[b].pkg = log[c].pkg =>
                      log[b].op \notin CheckoutOps \cup {"inspect", "services"}

\* a run of one package that was checked out, inspected, regenerated and
\* scanned
C18_Witness ==
    /\ pc = "done"
    /\ OpsOf(log) = <<"dp", "co", "inspect", "services", "scan">>

\* the references the run has put into one of its sets
Referenced == need_vendor_services \cup maybe_vuln \cup slow_update \cup fast_update

\* the devel projects are all known: every input package has the one that
\* osc dp answered
Resolved ==
    /\ DOMAIN devel_projects = Input
    /\ \A p \in Input : devel_projects[p] = DevelProject[p]

\* C19: when the first checkout, inspection, regeneration or scan is made
\* devel_projects holds the devel project of every input package, and every
\* osc dp has been made before; devel_projects is written by the first loop
\* only; and every reference in a set of the run is the devel project of an
\* input package, as that loop stored it, a slash and the package.
C19_DevelProjects ==
    /\ [](\A c \in 1..Len(log) :
            log[c].op \in PackageOps =>
                /\ Resolved
                /\ \A b \in (c + 1)..Len(log) : log[b].op # "dp")
    /\ [][(pc # "resolve") => devel_projects' = devel_projects]_vars
    /\ [](Referenced \subseteq {devel_projects[p] \o "/" \o p : p \in DOMAIN devel_projects})

\* a run of two packages of different devel projects that ended with a
\* reference to each in its sets
C19_Witness ==
    /\ pc = "done"
    /\ Resolved
    /\ "devel:languages:rust/foo" \in fast_update \cup slow_update
    /\ "network/bar" \in need_vendor_services

\* how many calls of a kind were made for a package
Count(ops, pkgname) ==
    Cardinality({c \in 1..Len(log) : log[c].op \in ops /\ log[c].pkg = pkgname})

\* no package is listed twice
Distinct(deps) ==
    \A a, b \in 1..Len(deps) : a # b => deps[a] # deps[b]

====
